---- MODULE Spec2Model ----
(***************************************************************************)
(* Chronopost: the scheduled-post dispatcher.                              *)
(*                                                                         *)
(* The model follows the backend package: PostService (post-service.ts),   *)
(* PostScheduler (post-scheduler.ts), BlueskyApiClient (api-client.ts),    *)
(* OAuthClient / TokenManager (oauth-client.ts, token-manager.ts), the     *)
(* SessionManager's OAuth states, the RateLimiter, the session helpers of  *)
(* lib/prisma and the posts and auth routers.                              *)
(* Every `await` of the source is a step boundary: between                 *)
(* two database or network calls of one handler any other handler, and any *)
(* other process that shares the database, may run.                        *)
(*                                                                         *)
(* The intermediate status the code writes when it starts executing a post *)
(* is the string 'PROCESSING' (post-service.ts, shared PostStatus enum and *)
(* the first migration).  It is the state the specification calls          *)
(* EXECUTING.                                                              *)
(***************************************************************************)
EXTENDS Integers, Sequences, FiniteSets, TLC

\* ---------------------------------------------------------------- bounds
NumPosts == 1
NumDispatchers == 2
MaxNow == 1
MaxAttempts == 4
MaxDbFaults == 1

\* ------------------------------------------------------ program constants
maxRetries == 3
batchSize == 10
take == 100

MaxAudit == 4
NumRefreshers == 2
MaxTokenRequests == 3
NumUsers == 2
NumStates == 2
MaxCallbacks == 3
MaxIssued == 3
NumGateCallers == 2
MaxRecorded == 3
NumBatchPosts == 11
NumQueuePosts == 4
MaxLen == 3
NumChars == 3
NumIVs == 2
MaxProofs == 2
NumKeyCallers == 2
MaxKeys == 3
NumApiCallers == 2
MaxCreated == 7

Posts == 1..NumPosts
Refreshers == 1..NumRefreshers
Dispatchers == 1..NumDispatchers
\* caller 0 is a direct call of PostService.executePost, callers 1.. are the
\* PostScheduler instances (one per dispatcher process)
Direct == 0
Callers == {Direct} \cup Dispatchers
Outcomes == {"ok", "503", "400"}
NullTime == -1
NullText == << >>
Users == 1..NumUsers
\* the user whose session the POST /posts requests of the model carry
Author == 1
StateIds == 1..NumStates
GateCallers == 1..NumGateCallers
\* index.ts: rateLimiter.configureLimit('bluesky_api', 300, 5 * 60 * 1000) and
\* configureLimit('oauth_token', 60, 60 * 1000); the clock counts seconds
Endpoints == {"bluesky_api", "oauth_token"}
maxPerWindow == [e \in Endpoints |-> IF e = "bluesky_api" THEN 300 ELSE 60]
windowMs == [e \in Endpoints |-> IF e = "bluesky_api" THEN 5 * 60 ELSE 60]
\* SessionManager: stateExpiryMs = 10 * 60 * 1000
stateExpiryMs == 10 * 60

VARIABLES
    posts,      \* scheduled_posts table: id -> row
    now,        \* wall clock
    isRunning,  \* PostScheduler.isRunning, per dispatcher process
    tick,       \* position of processPendingPosts, per dispatcher process
    queue,      \* posts of the tick's query not yet handed to executePost
    inv,        \* executePost invocations: position and locals, per caller and post
    upd,        \* updateScheduledPost requests in flight, per post
    del,        \* deleteScheduledPost requests in flight, per post
    resp,       \* last HTTP answer of PUT and DELETE, per post
    log,        \* per post: outcomes of the createRecord requests made for it
    records,    \* number of records created on the network
    dbFaults,   \* number of database writes that failed so far
    auditLog,   \* number of rows of the audit_log table
    sessions,   \* oauth_sessions table: id -> row
    issued,     \* token endpoint: number of token pairs issued so far
    rf,         \* callers that need a token: position, arguments and result
    tokenRequests, \* number of requests sent to the token endpoint
    states,     \* SessionManager.states: state string -> OAuthState
    stateUses,  \* per state string: the answers of getState so far
    limits,     \* RateLimiter.limits: endpoint -> count and resetAt
    gate,       \* callers of the RateLimiter: position and arguments
    answers,    \* last HTTP answer of GET, PUT and DELETE /posts/:id, per acting user and post
    got,        \* what getTokens / getTokensForUser returned last, and when
    run,        \* per dispatcher process: the processPendingPosts bodies in progress,
                \* what the running one queried and handed to executePost, its timer
    proofs,     \* the payloads of the DPoP proofs created so far
    vault,      \* a text given to TokenManager.encrypt, what was stored, what came back
    dpop,       \* one DPoPManager: its four fields, the generateKeyPair calls in
                \* progress, and what the last operation on it returned
    cron,       \* CronManager.jobs: name -> status of the task, and the last health check
    api         \* api package: the PENDING posts of one user and the create requests
                \* of that user in progress

authVars == << sessions, issued, rf, tokenRequests >>

postVars == << posts, isRunning, tick, queue, inv, upd, del, resp, log, records, dbFaults,
               auditLog >>

extVars == << states, stateUses, limits, gate, answers, got >>

svcVars == << dpop, cron, api >>

runVars == << run, proofs, vault, svcVars >>

vars == << posts, now, isRunning, tick, queue, inv, upd, del, resp, log, records, dbFaults,
           auditLog, authVars, extVars, runVars >>

\* ------------------------------------------------------------- helpers
Last(s) == s[Len(s)]

\* error.message.includes(word), a message being the sequence of its parts
Includes(msg, word) == \E i \in 1..Len(msg) : msg[i] = word

IdleInv == [pc |-> "idle", retryCount |-> 0, result |-> NullText]
IdleUpd == [pc |-> "idle", content |-> "", scheduledAt |-> NullTime]
IdleRf == [pc |-> "idle", refreshToken |-> 0, result |-> << >>]
IdleGate == [pc |-> "idle", endpoint |-> "bluesky_api", count |-> 0, wakeAt |-> 0, calls |-> 0]
NoAnswer == [get |-> "none", put |-> "none", delete |-> "none"]
NotIssued == [createdAt |-> NullTime, answers |-> << >>, keys |-> 0, presented |-> 0]
NothingGot == [fn |-> "none", result |-> << >>, isActive |-> FALSE,
               refreshExpiresAt |-> NullTime, at |-> NullTime]

\* prisma.scheduledPost.create in createScheduledPost, with the schema defaults
NewPost(content, scheduledAt) ==
    [ userId |-> Author, content |-> content, scheduledAt |-> scheduledAt, status |-> "PENDING",
      retryCount |-> 0, errorMsg |-> NullText, executedAt |-> NullTime,
      blueskyUri |-> NullText, blueskyRkey |-> NullText,
      threadRootId |-> 0, threadIndex |-> 0, isThreadRoot |-> TRUE,
      canExecute |-> TRUE, isDeleted |-> FALSE ]

\* a PostScheduler that has no processPendingPosts body in progress
IdleRun == [bodies |-> 0, last |-> "none", queried |-> << >>, invoked |-> {}, wakeAt |-> 0]

\* nothing has been given to TokenManager.encrypt yet
EmptyVault == [pc |-> "empty"]

\* a new DPoPManager: privateKey, publicKey, publicJWK and keyId are null
\* (0, or the empty sequence); no call in progress, no operation made
NoKey ==
    [ privateKey |-> 0, publicKey |-> 0, publicJWK |-> << >>, keyId |-> << >>,
      made |-> 0, inMap |-> FALSE,
      gen |-> [c \in 1..NumKeyCallers |-> [pc |-> "idle", key |-> 0, via |-> "none"]],
      seen |-> [op |-> "none", result |-> << >>, isInitialized |-> FALSE, settled |-> FALSE] ]

\* the jobs that JobProcessor.initialize registers
Jobs == {"process-pending-posts", "cleanup-old-posts", "scheduler-health-check"}

\* a new CronManager: no job is registered ("none"); no health check has run
NoJobs == [jobs |-> [name \in Jobs |-> "none"], checkedAt |-> NullTime, restarted |-> FALSE]

\* the api package with no scheduled post and no request
NoRequests ==
    [ pending |-> 0, created |-> 0,
      req |-> [c \in 1..NumApiCallers |-> [pc |-> "idle", postCount |-> 0, answer |-> 0]] ]

\* the uri the network answers for the n-th record it creates
RecordUri(n) == << "at:", "", "did:plc:user", "app.bsky.feed.post", n >>

\* result.uri.split('/').pop() || ''
Rkey(uri) == IF Len(uri) = 0 THEN NullText ELSE << Last(uri) >>

\* the Error.message executePost stores for a failed createPost
ErrorMessage(outcome) ==
    IF outcome = "auth"
    THEN << "Authentication failed: token expired and", "refresh", "failed" >>
    ELSE << "API request failed:", outcome >>

\* where: { status: 'PENDING', scheduledAt: { lte: now } }
DuePosts == { p \in DOMAIN posts : posts[p].status = "PENDING" /\ posts[p].scheduledAt <= now }

\* orderBy: { scheduledAt: 'asc' } (ties by id), as a sequence
RECURSIVE SortByScheduledAt(_)
SortByScheduledAt(S) ==
    IF S = {} THEN << >>
    ELSE LET m == CHOOSE p \in S : \A q \in S :
                      \/ posts[p].scheduledAt < posts[q].scheduledAt
                      \/ posts[p].scheduledAt = posts[q].scheduledAt /\ p <= q
         IN << m >> \o SortByScheduledAt(S \ {m})

Take(s, n) == SubSeq(s, 1, IF Len(s) < n THEN Len(s) ELSE n)
Drop(s, n) == SubSeq(s, (IF Len(s) < n THEN Len(s) ELSE n) + 1, Len(s))
Range(s) == { s[i] : i \in 1..Len(s) }

RECURSIVE SumLen(_, _)
SumLen(f, S) == IF S = {} THEN 0
                ELSE LET x == CHOOSE y \in S : TRUE IN Len(f[x]) + SumLen(f, S \ {x})

\* createRecord requests made so far, over all posts
TotalAttempts == SumLen(log, DOMAIN log)

\* PostService.getPendingPostsDueForExecution
getPendingPostsDueForExecution == Take(SortByScheduledAt(DuePosts), take)

\* ------------------------------------------------------------- Init
Init ==
    /\ posts = << >>
    /\ now = 0
    /\ isRunning = [d \in Dispatchers |-> FALSE]
    /\ tick = [d \in Dispatchers |-> "idle"]
    /\ queue = [d \in Dispatchers |-> << >>]
    /\ inv = [c \in Callers |-> [p \in Posts |-> IdleInv]]
    /\ upd = [p \in Posts |-> IdleUpd]
    /\ del = [p \in Posts |-> "idle"]
    /\ resp = [p \in Posts |-> [put |-> "none", delete |-> "none"]]
    /\ log = [p \in Posts |-> << >>]
    /\ records = 0
    /\ dbFaults = 0
    /\ auditLog = 0
    /\ sessions = << >>
    /\ issued = 0
    /\ rf = [r \in Refreshers |-> IdleRf]
    /\ tokenRequests = 0
    /\ states = << >>
    /\ stateUses = [st \in StateIds |-> NotIssued]
    /\ limits = [e \in Endpoints |-> [count |-> 0, resetAt |-> windowMs[e]]]
    /\ gate = [c \in GateCallers |-> IdleGate]
    /\ answers = [u \in Users |-> [p \in Posts |-> NoAnswer]]
    /\ got = NothingGot
    /\ run = [d \in Dispatchers |-> IdleRun]
    /\ proofs = {}
    /\ vault = EmptyVault
    /\ dpop = NoKey
    /\ cron = NoJobs
    /\ api = NoRequests

\* ------------------------------------------------------------- clock
Advance ==
    /\ now < MaxNow
    /\ now' = now + 1
    /\ UNCHANGED << posts, isRunning, tick, queue, inv, upd, del, resp, log, records, dbFaults, auditLog, authVars, extVars,
                    runVars >>

\* ------------------------------------------------- PostService, user side
\* createScheduledPost: rejects scheduledAt <= now, otherwise inserts a PENDING row
CreateScheduledPost(content, scheduledAt) ==
    /\ Cardinality(DOMAIN posts) < NumPosts
    /\ scheduledAt > now
    /\ posts' = posts @@ ((Cardinality(DOMAIN posts) + 1) :> NewPost(content, scheduledAt))
    /\ UNCHANGED << now, isRunning, tick, queue, inv, upd, del, resp, log, records, dbFaults, auditLog, authVars, extVars,
                    runVars >>

\* updateScheduledPost up to its write: getScheduledPost (findUnique), the
\* status check and the scheduledAt check.  content = "" / scheduledAt =
\* NullTime stand for a field absent from the request body.  The answers are
\* those of the PUT /:id handler of the posts router.
UpdateRead(p, content, scheduledAt) ==
    /\ upd[p].pc = "idle"
    /\ IF p \notin DOMAIN posts
       THEN /\ resp' = [resp EXCEPT ![p].put = "NOT_FOUND"]
            /\ upd' = upd
       ELSE IF posts[p].status # "PENDING"
       THEN /\ resp' = [resp EXCEPT ![p].put = "INVALID_OPERATION"]
            /\ upd' = upd
       ELSE IF scheduledAt # NullTime /\ scheduledAt <= now
       THEN /\ resp' = [resp EXCEPT ![p].put = "SERVER_ERROR"]
            /\ upd' = upd
       ELSE /\ upd' = [upd EXCEPT ![p] = [pc |-> "write", content |-> content,
                                          scheduledAt |-> scheduledAt]]
            /\ resp' = resp
    /\ UNCHANGED << posts, now, isRunning, tick, queue, inv, del, log, records, dbFaults, auditLog, authVars, extVars,
                    runVars >>

\* prisma.scheduledPost.update({ where: { id }, data }) of updateScheduledPost
UpdateData(row, content, scheduledAt) ==
    [row EXCEPT !.content = IF content = "" THEN @ ELSE content,
                !.scheduledAt = IF scheduledAt = NullTime THEN @ ELSE scheduledAt]

UpdateWrite(p) ==
    /\ upd[p].pc = "write"
    /\ posts' = [posts EXCEPT ![p] = UpdateData(@, upd[p].content, upd[p].scheduledAt)]
    /\ upd' = [upd EXCEPT ![p] = IdleUpd]
    /\ resp' = [resp EXCEPT ![p].put = "ok"]
    /\ UNCHANGED << now, isRunning, tick, queue, inv, del, log, records, dbFaults, auditLog, authVars, extVars,
                    runVars >>

\* deleteScheduledPost up to its write: getScheduledPost and the status check
DeleteRead(p) ==
    /\ del[p] = "idle"
    /\ IF p \notin DOMAIN posts
       THEN /\ resp' = [resp EXCEPT ![p].delete = "NOT_FOUND"]
            /\ del' = del
       ELSE IF posts[p].status # "PENDING"
       THEN /\ resp' = [resp EXCEPT ![p].delete = "INVALID_OPERATION"]
            /\ del' = del
       ELSE /\ del' = [del EXCEPT ![p] = "write"]
            /\ resp' = resp
    /\ UNCHANGED << posts, now, isRunning, tick, queue, inv, upd, log, records, dbFaults, auditLog, authVars, extVars,
                    runVars >>

\* prisma.scheduledPost.update({ where: { id }, data: { status: 'CANCELLED' } })
CancelData(row) == [row EXCEPT !.status = "CANCELLED"]

DeleteWrite(p) ==
    /\ del[p] = "write"
    /\ posts' = [posts EXCEPT ![p] = CancelData(@)]
    /\ del' = [del EXCEPT ![p] = "idle"]
    /\ resp' = [resp EXCEPT ![p].delete = "ok"]
    /\ UNCHANGED << now, isRunning, tick, queue, inv, upd, log, records, dbFaults, auditLog, authVars, extVars,
                    runVars >>

\* ------------------------------------------------ PostService.executePost
\* the status check after findUnique
CanExecute(status) == status = "PENDING" \/ status = "FAILED"

\* a direct call of executePost(p)
ExecuteCall(p) ==
    /\ inv[Direct][p].pc = "idle"
    /\ p \in DOMAIN posts
    /\ TotalAttempts < MaxAttempts
    /\ inv' = [inv EXCEPT ![Direct][p].pc = "read"]
    /\ UNCHANGED << posts, now, isRunning, tick, queue, upd, del, resp, log, records, dbFaults, auditLog, authVars, extVars,
                    runVars >>

\* findUnique and the status check: the invocation keeps the row it read
ExecRead(c, p) ==
    /\ inv[c][p].pc = "read"
    /\ IF CanExecute(posts[p].status)
       THEN inv' = [inv EXCEPT ![c][p] = [pc |-> "claim", retryCount |-> posts[p].retryCount,
                                          result |-> NullText]]
       ELSE inv' = [inv EXCEPT ![c][p] = IdleInv]
    /\ UNCHANGED << posts, now, isRunning, tick, queue, upd, del, resp, log, records, dbFaults, auditLog, authVars, extVars,
                    runVars >>

\* update({ where: { id }, data: { status: 'PROCESSING' } })
ClaimData(row) == [row EXCEPT !.status = "PROCESSING"]

ExecClaim(c, p) ==
    /\ inv[c][p].pc = "claim"
    /\ posts' = [posts EXCEPT ![p] = ClaimData(@)]
    /\ inv' = [inv EXCEPT ![c][p].pc = "publish"]
    /\ UNCHANGED << now, isRunning, tick, queue, upd, del, resp, log, records, dbFaults, auditLog, authVars, extVars,
                    runVars >>

\* apiClient.createPost: the createRecord request and its answer.  "auth" is
\* makeRequest failing before the request is sent (no session, or an expired
\* access token, whose refresh is not implemented)
ExecPublish(c, p, outcome) ==
    /\ inv[c][p].pc = "publish"
    /\ TotalAttempts < MaxAttempts
    /\ log' = [log EXCEPT ![p] = Append(@, outcome)]
    /\ IF outcome = "ok"
       THEN /\ records' = records + 1
            /\ inv' = [inv EXCEPT ![c][p].pc = "success", ![c][p].result = RecordUri(records + 1)]
       ELSE /\ records' = records
            /\ inv' = [inv EXCEPT ![c][p].pc = "failure", ![c][p].result = ErrorMessage(outcome)]
    /\ UNCHANGED << posts, now, isRunning, tick, queue, upd, del, resp, dbFaults, auditLog, authVars, extVars,
                    runVars >>

\* the update of the try block
SuccessData(row, uri, t) ==
    [row EXCEPT !.status = "COMPLETED", !.executedAt = t,
                !.blueskyUri = uri, !.blueskyRkey = Rkey(uri)]

ExecSuccessWrite(c, p) ==
    /\ inv[c][p].pc = "success"
    /\ posts' = [posts EXCEPT ![p] = SuccessData(@, inv[c][p].result, now)]
    /\ inv' = [inv EXCEPT ![c][p] = IdleInv]
    /\ UNCHANGED << now, isRunning, tick, queue, upd, del, resp, log, records, dbFaults, auditLog, authVars, extVars,
                    runVars >>

\* the update of the catch block: retryCount is computed from the row read
\* at the start of the invocation
FailureData(row, snapshot, msg) ==
    LET retryCount == snapshot + 1
    IN [row EXCEPT !.status = IF retryCount >= maxRetries THEN "FAILED" ELSE "PENDING",
                   !.retryCount = retryCount,
                   !.errorMsg = msg]

ExecFailureWrite(c, p) ==
    /\ inv[c][p].pc = "failure"
    /\ posts' = [posts EXCEPT ![p] = FailureData(@, inv[c][p].retryCount, inv[c][p].result)]
    /\ inv' = [inv EXCEPT ![c][p] = IdleInv]
    /\ UNCHANGED << now, isRunning, tick, queue, upd, del, resp, log, records, dbFaults, auditLog, authVars, extVars,
                    runVars >>

\* a database write of executePost that throws.  The claim write is outside
\* the try block and ends the invocation; the success write is inside it and
\* leads to the catch block; the write of the catch block ends the invocation.
DbWriteError == << "database write failed" >>

ExecWriteFault(c, p) ==
    /\ dbFaults < MaxDbFaults
    /\ inv[c][p].pc \in {"claim", "success", "failure"}
    /\ dbFaults' = dbFaults + 1
    /\ IF inv[c][p].pc = "success"
       THEN inv' = [inv EXCEPT ![c][p].pc = "failure", ![c][p].result = DbWriteError]
       ELSE inv' = [inv EXCEPT ![c][p] = IdleInv]
    /\ UNCHANGED << posts, now, isRunning, tick, queue, upd, del, resp, log, records, auditLog, authVars, extVars,
                    runVars >>

\* ------------------------------------------------------- PostScheduler
Active(d) == { p \in DOMAIN inv[d] : inv[d][p].pc # "idle" }

\* executePostsBatch: a sub-batch is the next batchSize posts of the query.
SubBatchAll(q) == q

SubBatch(q) == Take(q, batchSize)

\* executePostsBatch hands one sub-batch to executePost, all of it at once
\* (Promise.all over batch.map)
Launch(d, q) ==
    /\ inv' = [inv EXCEPT ![d] = [p \in DOMAIN inv[d] |->
                   IF p \in Range(SubBatch(q))
                   THEN [pc |-> "read", retryCount |-> 0, result |-> NullText]
                   ELSE inv[d][p]]]
    /\ queue' = [queue EXCEPT ![d] = Drop(q, batchSize)]

\* processPendingPosts: the re-entrancy guard, `if (this.isRunning) return`
CanStartAlways(d) == TRUE

CanStart(d) == ~isRunning[d]

\* the cron task or forceProcessPendingPosts calls processPendingPosts, which
\* passes the guard and sets isRunning
TickStart(d) ==
    /\ CanStart(d)
    /\ isRunning' = [isRunning EXCEPT ![d] = TRUE]
    /\ tick' = [tick EXCEPT ![d] = "query"]
    /\ run' = [run EXCEPT ![d].bodies = @ + 1, ![d].last = "started"]
    /\ UNCHANGED << posts, now, queue, inv, upd, del, resp, log, records, dbFaults, auditLog,
                    authVars, extVars, proofs, vault, svcVars >>

\* processPendingPosts is called while a body is running: it logs and returns
TickSkip(d) ==
    /\ ~CanStart(d)
    /\ run[d].last # "skipped"
    /\ run' = [run EXCEPT ![d].last = "skipped"]
    /\ UNCHANGED << now, postVars, authVars, extVars, proofs, vault, svcVars >>

\* the query answers; an empty answer returns through `finally`
TickQuery(d) ==
    /\ tick[d] = "query"
    /\ LET q == getPendingPostsDueForExecution
       IN IF Len(q) = 0
          THEN /\ isRunning' = [isRunning EXCEPT ![d] = FALSE]
               /\ tick' = [tick EXCEPT ![d] = "idle"]
               /\ run' = [run EXCEPT ![d].bodies = @ - 1]
               /\ UNCHANGED << inv, queue >>
          ELSE /\ Launch(d, q)
               /\ tick' = [tick EXCEPT ![d] = "batch"]
               /\ isRunning' = isRunning
               /\ run' = [run EXCEPT ![d].queried = q,
                                     ![d].invoked = Range(SubBatch(q))]
    /\ UNCHANGED << posts, now, upd, del, resp, log, records, dbFaults, auditLog, authVars,
                    extVars, proofs, vault, svcVars >>

\* the query rejects: the catch block logs, `finally` clears the guard
TickQueryThrows(d) ==
    /\ tick[d] = "query"
    /\ dbFaults < MaxDbFaults
    /\ dbFaults' = dbFaults + 1
    /\ isRunning' = [isRunning EXCEPT ![d] = FALSE]
    /\ tick' = [tick EXCEPT ![d] = "idle"]
    /\ run' = [run EXCEPT ![d].bodies = @ - 1]
    /\ UNCHANGED << posts, now, queue, inv, upd, del, resp, log, records, auditLog, authVars,
                    extVars, proofs, vault, svcVars >>

\* Promise.all of a sub-batch settles: after the last sub-batch the tick ends
\* and `finally` clears the guard, otherwise setTimeout(resolve, 1000) is awaited
\* (the clock counts seconds)
TickBatchDone(d) ==
    /\ tick[d] = "batch"
    /\ Active(d) = {}
    /\ IF Len(queue[d]) = 0
       THEN /\ isRunning' = [isRunning EXCEPT ![d] = FALSE]
            /\ tick' = [tick EXCEPT ![d] = "idle"]
            /\ run' = [run EXCEPT ![d].bodies = @ - 1, ![d].queried = << >>, ![d].invoked = {}]
       ELSE /\ tick' = [tick EXCEPT ![d] = "pause"]
            /\ run' = [run EXCEPT ![d].wakeAt = now + 1]
            /\ UNCHANGED isRunning
    /\ UNCHANGED << posts, now, queue, inv, upd, del, resp, log, records, dbFaults, auditLog,
                    authVars, extVars, proofs, vault, svcVars >>

\* the timer of the pause fires: the next sub-batch starts
TickResume(d) ==
    /\ tick[d] = "pause"
    /\ now >= run[d].wakeAt
    /\ Launch(d, queue[d])
    /\ tick' = [tick EXCEPT ![d] = "batch"]
    /\ run' = [run EXCEPT ![d].invoked = @ \cup Range(SubBatch(queue[d]))]
    /\ UNCHANGED << posts, now, isRunning, upd, del, resp, log, records, dbFaults, auditLog,
                    authVars, extVars, proofs, vault, svcVars >>

\* the catch block around executePost in executePostsBatch logs the error;
\* the posts still to be handed out are what they were
AfterThrowAbort(q) == << >>

AfterThrow(q) == q

\* one executePost(p) of a sub-batch from its start to its settling, on a
\* database nobody else writes: the row is claimed, createPost answers, the
\* outcome is written.  A row that is not PENDING or FAILED makes it throw.
\* The network names the record it creates; the name stands here for the post
\* the record was created for.
ExecutePost(d, p, outcome) ==
    /\ inv[d][p].pc = "read"
    /\ inv' = [inv EXCEPT ![d][p] = IdleInv]
    /\ IF CanExecute(posts[p].status)
       THEN /\ log' = [log EXCEPT ![p] = Append(@, outcome)]
            /\ records' = IF outcome = "ok" THEN records + 1 ELSE records
            /\ posts' = [posts EXCEPT ![p] =
                   IF outcome = "ok"
                   THEN SuccessData(ClaimData(@), RecordUri(p), now)
                   ELSE FailureData(ClaimData(@), @.retryCount, ErrorMessage(outcome))]
            /\ UNCHANGED queue
       ELSE /\ queue' = [queue EXCEPT ![d] = AfterThrow(@)]
            /\ UNCHANGED << posts, log, records >>
    /\ UNCHANGED << now, isRunning, tick, upd, del, resp, dbFaults, auditLog, authVars, extVars,
                    runVars >>

\* one executePost(p) of a sub-batch whose first database call rejects: it
\* throws into the catch block of executePostsBatch
ExecutePostThrows(d, p) ==
    /\ inv[d][p].pc = "read"
    /\ dbFaults < MaxDbFaults
    /\ dbFaults' = dbFaults + 1
    /\ inv' = [inv EXCEPT ![d][p] = IdleInv]
    /\ queue' = [queue EXCEPT ![d] = AfterThrow(@)]
    /\ UNCHANGED << posts, now, isRunning, tick, upd, del, resp, log, records, auditLog,
                    authVars, extVars, runVars >>

\* ------------------------------------------------------- process shutdown
\* SIGINT or SIGTERM: the handler stops the cron jobs and calls process.exit(0).
\* Whatever the process had in flight is gone with it; the process that is
\* started next has a fresh PostScheduler.  The database is not touched.
Shutdown(d) ==
    /\ inv' = [inv EXCEPT ![d] = [p \in DOMAIN inv[d] |-> IdleInv]]
    /\ isRunning' = [isRunning EXCEPT ![d] = FALSE]
    /\ tick' = [tick EXCEPT ![d] = "idle"]
    /\ queue' = [queue EXCEPT ![d] = << >>]
    /\ run' = [run EXCEPT ![d] = [IdleRun EXCEPT !.last = "exited"]]
    /\ UNCHANGED << posts, now, upd, del, resp, log, records, dbFaults, auditLog, authVars,
                    extVars, proofs, vault, svcVars >>

\* ------------------------------------------- TokenManager, encryption
\* texts are sequences of bytes, hex strings are sequences of the bytes they
\* spell, a stored value is the sequence of the parts that ':' separates
Texts == UNION { [1..n -> 0..(NumChars - 1)] : n \in 0..MaxLen }

\* the byte the cipher (AES-256-GCM, a counter mode) adds at position i under
\* the key of the TokenManager and the given iv
KeyStream(iv, i) == (97 * iv + 31 * i) % 256

\* cipher.getAuthTag(): determined by the key, the iv and the ciphertext
AuthTag(iv, bytes) ==
    (iv + SumLen([i \in DOMAIN bytes |-> [j \in 1..bytes[i] |-> 0]], DOMAIN bytes)) % 256

\* TokenManager.encrypt(text) with the iv that randomBytes(16) returned:
\* `${iv.toString('hex')}:${authTag}:${encrypted}`
encrypt(text, iv) ==
    LET encrypted == [i \in DOMAIN text |-> (text[i] + KeyStream(iv, i)) % 256]
    IN << << iv >>, << AuthTag(iv, encrypted) >>, encrypted >>

\* TokenManager.decrypt(encryptedText): split(':'), the test for an empty
\* part, then the decipher, whose final() throws when the tag does not match
decrypt(encryptedText) ==
    LET ivHex == encryptedText[1]
        authTagHex == encryptedText[2]
        encryptedHex == encryptedText[3]
    IN IF Len(ivHex) = 0 \/ Len(authTagHex) = 0 \/ Len(encryptedHex) = 0
       THEN << "error", "Invalid encrypted text format" >>
       ELSE IF authTagHex[1] # AuthTag(ivHex[1], encryptedHex)
       THEN << "error", "Unsupported state or unable to authenticate data" >>
       ELSE << "text", [i \in DOMAIN encryptedHex |->
                           (encryptedHex[i] + 256 - KeyStream(ivHex[1], i)) % 256] >>

\* storeTokens encrypts tokens.accessToken and writes it to the session row,
\* which it creates with isActive: true
VaultStore(text, iv) ==
    /\ vault' = [pc |-> "stored", text |-> text, accessToken |-> encrypt(text, iv),
                 isActive |-> TRUE, revokeReason |-> NullText]
    /\ UNCHANGED << now, postVars, authVars, extVars, run, proofs, svcVars >>

\* getTokens decrypts the accessToken of the row and returns it, or lets the
\* error of decrypt through; it writes nothing to the row
VaultRead ==
    /\ vault.pc = "stored"
    /\ vault.isActive
    /\ vault' = [pc |-> "read", text |-> vault.text, accessToken |-> vault.accessToken,
                 isActive |-> vault.isActive, revokeReason |-> vault.revokeReason,
                 result |-> decrypt(vault.accessToken)]
    /\ UNCHANGED << now, postVars, authVars, extVars, run, proofs, svcVars >>

\* ---------------------------------------------------- DPoPManager, proofs
\* a URL is its origin, its path, its query and its fragment ("" when absent),
\* on the host of the network
Url(path, query) ==
    [origin |-> "https://bsky.social", path |-> path, query |-> query, fragment |-> ""]

\* the endpoints BlueskyApiClient passes to makeRequest, with their methods:
\* createPost, getPost (which appends `?${params}`), deletePost
ApiCalls ==
    { [path |-> "/xrpc/com.atproto.repo.createRecord", query |-> "", method |-> "POST"],
      [path |-> "/xrpc/com.atproto.repo.getRecord", query |-> "repo&collection&rkey",
       method |-> "GET"],
      [path |-> "/xrpc/com.atproto.repo.deleteRecord", query |-> "", method |-> "POST"] }

\* method is a string parameter of makeRequest and of createATProofForAPICall
Methods == {"GET", "POST", "get", "post"}

\* String.prototype.toUpperCase
toUpperCase(method) ==
    CASE method = "get" -> "GET"
      [] method = "post" -> "POST"
      [] OTHER -> method

\* DPoPManager.createProof(method, url, jwk): the payload of the proof
\* (jti, a random UUID, and the signature are left out)
createProof(method, url) == [htm |-> method, htu |-> url, iat |-> now]

\* the DPoPManager of services/oauth/dpop-manager.ts: htm is upper-cased
createProofUpper(method, url) == [htm |-> toUpperCase(method), htu |-> url, iat |-> now]

\* dpopUtils.normalizeUrl: protocol, host and pathname of the URL
normalizeUrl(url) == [url EXCEPT !.query = "", !.fragment = ""]

\* a proof is created by a caller; the model keeps at most MaxProofs of them
Emit(by, proof) ==
    /\ Cardinality(proofs) < MaxProofs
    /\ proofs' = proofs \cup { [by |-> by, htm |-> proof.htm, htu |-> proof.htu] }
    /\ UNCHANGED << now, postVars, authVars, extVars, run, vault, svcVars >>

\* OAuthClient.exchangeCodeForTokens
ProveExchange == Emit("exchangeCodeForTokens", createProof("POST", Url("/oauth/token", "")))

\* OAuthClient.refreshAccessToken
ProveRefresh == Emit("refreshAccessToken", createProof("POST", Url("/oauth/token", "")))

\* OAuthClient.getUserInfo
ProveUserInfo == Emit("getUserInfo", createProof("GET", Url("/xrpc/com.atproto.server.getSession", "")))

\* BlueskyApiClient.makeRequest(endpoint, method, ...): url is the base URL followed
\* by the endpoint; the DPoPManager it imports is one of the two in the tree
ProveRequest(path, query, method) ==
    LET url == Url(path, query)
    IN \/ Emit("makeRequest", createProof(method, url))
       \/ Emit("makeRequest", createProofUpper(method, url))

\* atProtocolDPoP.createATProofForAPICall(dPopManager, method, apiEndpoint)
ProveAPICall(path, query, method) ==
    Emit("createATProofForAPICall",
         createProofUpper(method, normalizeUrl(Url(path, query))))

\* ------------------------------------------------ postHelpers (lib/prisma)
\* the data of updatePostStatus: a field whose value is undefined is left as
\* it is (errorMsg, uri, rkey = NullText stand for metadata that is absent)
StatusData(row, status, errorMsg, uri, rkey, t) ==
    [row EXCEPT !.status = status,
                !.executedAt = IF status = "COMPLETED" THEN t ELSE @,
                !.errorMsg = IF errorMsg = NullText THEN @ ELSE errorMsg,
                !.blueskyUri = IF uri = NullText THEN @ ELSE uri,
                !.blueskyRkey = IF rkey = NullText THEN @ ELSE rkey,
                !.retryCount = IF status = "FAILED" THEN @ + 1 ELSE @]

\* updatePostStatus: the row update and the audit row, in one transaction
UpdatePostStatus(p, status, errorMsg, uri) ==
    /\ p \in DOMAIN posts
    /\ auditLog < MaxAudit
    /\ posts' = [posts EXCEPT ![p] = StatusData(@, status, errorMsg, uri, Rkey(uri), now)]
    /\ auditLog' = auditLog + 1
    /\ UNCHANGED << now, isRunning, tick, queue, inv, upd, del, resp, log, records, dbFaults, authVars, extVars,
                    runVars >>

\* --------------------------------------------- DPoPManager, key lifecycle
\* exportJWK(publicKey): the JWK of the public half of key pair k
exportJWK(k) == << "EC", "P-256", k >>

\* generateKeyId(jwk): the SHA-256 thumbprint of {crv, kty, x, y}
generateKeyId(jwk) == << "sha256", jwk[2], jwk[1], jwk[3] >>

\* isInitialized(): privateKey && publicKey && publicJWK && keyId
isInitialized ==
    dpop.privateKey # 0 /\ dpop.publicKey # 0 /\ dpop.publicJWK # << >> /\ dpop.keyId # << >>

\* generateKeyPair() called by c, directly (the DPoPManager shared by the
\* requests of an OAuthClient) or by DPoPSessionManager.createSession on a new
\* manager, up to its second await: the key pair that jose returned is
\* assigned, and exportJWK is called with the public key just assigned
GenerateKeyPair(c, via) ==
    /\ dpop.gen[c].pc = "idle"
    /\ dpop.made < MaxKeys
    /\ IF via = "createSession"
       THEN dpop.made = 0 /\ \A x \in DOMAIN dpop.gen : dpop.gen[x].pc = "idle"
       ELSE \A x \in DOMAIN dpop.gen : dpop.gen[x].via # "createSession"
    /\ dpop' = [dpop EXCEPT !.made = @ + 1, !.privateKey = dpop.made + 1,
                            !.publicKey = dpop.made + 1,
                            !.gen[c] = [pc |-> "exportJWK", key |-> dpop.made + 1, via |-> via]]
    /\ UNCHANGED << now, postVars, authVars, extVars, run, proofs, vault, cron, api >>

\* the rest of generateKeyPair: publicJWK is assigned when exportJWK has
\* resolved and generateKeyId is called with it; keyId is assigned when that
\* has resolved, and createSession then puts the manager into its map
GenerateKeyPairResume(c) ==
    LET g == dpop.gen[c]
    IN /\ \/ /\ g.pc = "exportJWK"
             /\ dpop' = [dpop EXCEPT !.publicJWK = exportJWK(g.key),
                                     !.gen[c].pc = "generateKeyId"]
          \/ /\ g.pc = "generateKeyId"
             /\ dpop' = [dpop EXCEPT !.keyId = generateKeyId(exportJWK(g.key)),
                                     !.inMap = (@ \/ g.via = "createSession"),
                                     !.gen[c] = [pc |-> "idle", key |-> 0, via |-> "none"]]
       /\ UNCHANGED << now, postVars, authVars, extVars, run, proofs, vault, cron, api >>

\* clear(), called directly or by DPoPSessionManager.removeSession, which
\* also deletes the manager from its map
Clear(bySession) ==
    /\ bySession => dpop.inMap
    /\ dpop' = [dpop EXCEPT !.privateKey = 0, !.publicKey = 0, !.publicJWK = << >>,
                            !.keyId = << >>, !.inMap = (@ /\ ~bySession)]
    /\ UNCHANGED << now, postVars, authVars, extVars, run, proofs, vault, cron, api >>

\* createProof, getKeyId and getPublicJWK: each tests the fields it uses; a
\* proof carries publicJWK in its header and is signed with privateKey
KeyOperation(op) ==
    LET result ==
          CASE op = "createProof" ->
                 IF dpop.privateKey = 0 \/ dpop.publicJWK = << >> \/ dpop.keyId = << >>
                 THEN << "error", "DPoP key pair not initialized" >>
                 ELSE << "ok", dpop.publicJWK, dpop.privateKey >>
            [] op = "getKeyId" ->
                 IF dpop.keyId = << >> THEN << "error", "Key ID not available" >>
                 ELSE << "ok", dpop.keyId >>
            [] op = "getPublicJWK" ->
                 IF dpop.publicJWK = << >> THEN << "error", "Public key not available" >>
                 ELSE << "ok", dpop.publicJWK >>
    IN /\ dpop' = [dpop EXCEPT !.seen = [op |-> op, result |-> result,
                                         isInitialized |-> isInitialized,
                                         settled |-> \A x \in DOMAIN dpop.gen :
                                                        dpop.gen[x].pc = "idle"]]
       /\ UNCHANGED << now, postVars, authVars, extVars, run, proofs, vault, cron, api >>

\* ------------------------------------------------ CronManager, JobProcessor
\* isJobRunning(name), mutated: a registered job counts as running
isJobRunningRegistered(name) == cron.jobs[name] # "none"

\* isJobRunning(name): !!job && job.getStatus() === 'scheduled'
isJobRunning(name) == cron.jobs[name] # "none" /\ cron.jobs[name] = "scheduled"

\* startJob(name) and stopJob(name): the job map after job.start() or
\* job.stop(); nothing happens for a name that is not registered
setJob(jobs, name, status) == IF jobs[name] = "none" THEN jobs ELSE [jobs EXCEPT ![name] = status]

\* index.ts: jobProcessor.initialize() registers the three jobs and
\* jobProcessor.startJobs() starts them all
StartJobs ==
    /\ cron' = [cron EXCEPT !.jobs = [name \in Jobs |-> "scheduled"]]
    /\ UNCHANGED << now, postVars, authVars, extVars, run, proofs, vault, dpop, api >>

\* stopAllJobs(), the call of the signal handlers
StopJobs ==
    /\ cron' = [cron EXCEPT !.jobs = [name \in Jobs |-> setJob(cron.jobs, name, "stopped")[name]]]
    /\ UNCHANGED << now, postVars, authVars, extVars, run, proofs, vault, dpop, api >>

\* CronManager.stopJob(name)
StopJob(name) ==
    /\ cron.jobs[name] # "none"
    /\ cron' = [cron EXCEPT !.jobs = setJob(cron.jobs, name, "stopped")]
    /\ UNCHANGED << now, postVars, authVars, extVars, run, proofs, vault, dpop, api >>

\* performHealthCheck, the handler of 'scheduler-health-check' (*/30 * * * *):
\* it runs once at every half hour at which its task is scheduled
PerformHealthCheck ==
    /\ cron.jobs["scheduler-health-check"] = "scheduled"
    /\ now > 0 /\ now % (30 * 60) = 0 /\ cron.checkedAt < now
    /\ LET processJobRunning == isJobRunning("process-pending-posts")
       IN cron' = [jobs |-> IF ~processJobRunning
                            THEN setJob(cron.jobs, "process-pending-posts", "scheduled")
                            ELSE cron.jobs,
                   checkedAt |-> now, restarted |-> ~processJobRunning]
    /\ UNCHANGED << now, postVars, authVars, extVars, run, proofs, vault, dpop, api >>

\* ------------------------------------------------- api package, POST /posts
\* validateScheduledPost.isWithinPostLimit(currentCount)
isWithinPostLimit(currentCount) ==
    LET MAX_POSTS == 5
    IN currentCount < MAX_POSTS

\* validateScheduledPostMiddleware for a request of caller c: the two-week
\* test, then getScheduledPostCount (status PENDING) and the limit test;
\* either answers 400, or next() goes on to the handler
ValidateScheduledPostMiddleware(c, isWithinTwoWeeks) ==
    /\ api.req[c].pc = "idle"
    /\ api.created + Cardinality({ x \in DOMAIN api.req : api.req[x].pc = "create" }) < MaxCreated
    /\ LET postCount == api.pending
       IN api' = [api EXCEPT !.req[c] =
                     IF isWithinTwoWeeks /\ isWithinPostLimit(postCount)
                     THEN [pc |-> "create", postCount |-> postCount, answer |-> 0]
                     ELSE [pc |-> "idle", postCount |-> postCount, answer |-> 400]]
    /\ UNCHANGED << now, postVars, authVars, extVars, run, proofs, vault, dpop, cron >>

\* the handler of posts.post('/'): scheduledPost.create with status PENDING
CreatePost(c) ==
    /\ api.req[c].pc = "create"
    /\ api' = [api EXCEPT !.pending = @ + 1, !.created = @ + 1,
                          !.req[c].pc = "idle", !.req[c].answer = 200]
    /\ UNCHANGED << now, postVars, authVars, extVars, run, proofs, vault, dpop, cron >>

\* a PENDING post of the user is published or fails: it leaves the count
LeavePending ==
    /\ api.pending > 0
    /\ api' = [api EXCEPT !.pending = @ - 1]
    /\ UNCHANGED << now, postVars, authVars, extVars, run, proofs, vault, dpop, cron >>

\* ----------------------------------------------- TokenManager, OAuthClient
\* 30 * 24 * 60 * 60 * 1000 ms; the clock of the model counts seconds
thirtyDays == 30 * 24 * 60 * 60

\* TokenManager.storeTokens: the session row of a completed login.  Tokens
\* and keys are numbered by the token pair the endpoint issued.
NewSession(n, expiresIn, t) ==
    [ accessToken |-> n, refreshToken |-> n, dPopKey |-> n,
      expiresAt |-> t + expiresIn, refreshExpiresAt |-> t + thirtyDays,
      isActive |-> TRUE, revokeReason |-> NullText ]

StoreTokens(expiresIn) ==
    /\ sessions = << >>
    /\ issued' = issued + 1
    /\ sessions' = (1 :> NewSession(issued + 1, expiresIn, now))
    /\ UNCHANGED << posts, now, isRunning, tick, queue, inv, upd, del, resp, log, records,
                    dbFaults, auditLog, rf, tokenRequests, extVars, runVars >>

\* TokenManager.getTokensForUser: isActive and refreshExpiresAt > now
ActiveSessions == { s \in DOMAIN sessions : sessions[s].isActive /\ sessions[s].refreshExpiresAt > now }

\* BlueskyApiClient.makeRequest up to the DPoP proof: the session is read, and
\* an expired access token goes to BlueskyApiClient.refreshToken, which throws
\* without sending anything
MakeRequestResult ==
    IF ActiveSessions = {} THEN << "No active session found for user" >>
    ELSE LET s == CHOOSE x \in ActiveSessions : TRUE
         IN IF sessions[s].expiresAt <= now
            THEN << "Authentication failed: token expired and", "refresh", "failed" >>
            ELSE << "request", sessions[s].accessToken >>

MakeRequest(r) ==
    /\ rf[r].pc = "idle"
    /\ rf' = [rf EXCEPT ![r] = [pc |-> "done", refreshToken |-> 0, result |-> MakeRequestResult]]
    /\ UNCHANGED << posts, now, isRunning, tick, queue, inv, upd, del, resp, log, records,
                    dbFaults, auditLog, sessions, issued, tokenRequests, extVars, runVars >>

\* a caller of OAuthClient.refreshAccessToken(refreshToken, dPopPrivateKey)
\* with the tokens of session s (TokenManager.getTokens): generateKeyPair and
\* createProof are awaited before the request is sent
RefreshCall(r, s) ==
    /\ rf[r].pc \in {"idle", "done"}
    /\ s \in DOMAIN sessions
    /\ sessions[s].isActive
    /\ tokenRequests + Cardinality({ x \in Refreshers : rf[x].pc = "send" }) < MaxTokenRequests
    /\ rf' = [rf EXCEPT ![r] = [pc |-> "send", refreshToken |-> sessions[s].refreshToken,
                                result |-> << >>]]
    /\ UNCHANGED << posts, now, isRunning, tick, queue, inv, upd, del, resp, log, records,
                    dbFaults, auditLog, sessions, issued, tokenRequests, extVars, runVars >>

\* fetch(tokenEndpoint, grant_type=refresh_token)
RefreshSend(r) ==
    /\ rf[r].pc = "send"
    /\ tokenRequests' = tokenRequests + 1
    /\ rf' = [rf EXCEPT ![r].pc = "await"]
    /\ UNCHANGED << posts, now, isRunning, tick, queue, inv, upd, del, resp, log, records,
                    dbFaults, auditLog, sessions, issued, extVars, runVars >>

\* the answer of the token endpoint: a new token pair, or an error status
RefreshAnswer(r, ok) ==
    /\ rf[r].pc = "await"
    /\ IF ok
       THEN /\ issued' = issued + 1
            /\ rf' = [rf EXCEPT ![r].pc = "done", ![r].result = << "tokens", issued + 1 >>]
       ELSE /\ issued' = issued
            /\ rf' = [rf EXCEPT ![r].pc = "done",
                                ![r].result = << "Refresh token request failed:", "400" >>]
    /\ UNCHANGED << posts, now, isRunning, tick, queue, inv, upd, del, resp, log, records,
                    dbFaults, auditLog, sessions, tokenRequests, extVars, runVars >>

\* ------------------------------- executePost through BlueskyApiClient
\* createPost -> makeRequest when getTokensForUser throws or the access token
\* is expired: refreshToken throws, nothing is sent to the token endpoint or
\* to the network, and executePost's catch block gets the error
ExecAuthFail(c, p) ==
    /\ inv[c][p].pc = "publish"
    /\ MakeRequestResult[1] # "request"
    /\ inv' = [inv EXCEPT ![c][p].pc = "failure", ![c][p].result = MakeRequestResult]
    /\ UNCHANGED << posts, now, isRunning, tick, queue, upd, del, resp, log, records, dbFaults,
                    auditLog, authVars, extVars, runVars >>

\* createPost -> makeRequest with a session whose access token is not
\* expired: the createRecord request is sent with the stored access token.
\* The answer "use_dpop_nonce" is the 401 that carries a DPoP-Nonce header;
\* makeRequest reads no header and treats it like any other !response.ok
ExecSend(c, p, outcome) ==
    /\ MakeRequestResult[1] = "request"
    /\ ExecPublish(c, p, outcome)

\* ------------------------------------------- post ownership, posts router
\* getScheduledPost(postId, userId): findUnique, then the userId comparison
getScheduledPost(p, u) ==
    IF p \notin DOMAIN posts THEN << "Post", "not found" >>
    ELSE IF posts[p].userId # u THEN << "Unauthorized access to post" >>
    ELSE << "post", p >>

\* the catch block of the GET, PUT and DELETE /:id handlers: 'not found' in
\* the message is 404 NOT_FOUND, 'Cannot update post with status' / 'Cannot
\* delete post with status' is 400 INVALID_OPERATION, anything else is 500
RouteAnswer(msg) ==
    IF Includes(msg, "not found") THEN "NOT_FOUND"
    ELSE IF Includes(msg, "Cannot update post with status")
            \/ Includes(msg, "Cannot delete post with status") THEN "INVALID_OPERATION"
    ELSE "SERVER_ERROR"

\* GET /posts/:id by user u
GetPost(p, u) ==
    /\ answers' = [answers EXCEPT ![u][p].get =
                      IF getScheduledPost(p, u)[1] = "post" THEN "ok"
                      ELSE RouteAnswer(getScheduledPost(p, u))]
    /\ UNCHANGED << now, postVars, authVars, states, stateUses, limits, gate, got, runVars >>

\* PUT /posts/:id by a user u whom getScheduledPost refuses: the error
\* leaves updateScheduledPost before the status check and before any write
UpdateDenied(p, u) ==
    /\ getScheduledPost(p, u) = << "Unauthorized access to post" >>
    /\ answers' = [answers EXCEPT ![u][p].put = RouteAnswer(getScheduledPost(p, u))]
    /\ UNCHANGED << now, postVars, authVars, states, stateUses, limits, gate, got, runVars >>

\* DELETE /posts/:id by a user u whom getScheduledPost refuses
DeleteDenied(p, u) ==
    /\ getScheduledPost(p, u) = << "Unauthorized access to post" >>
    /\ answers' = [answers EXCEPT ![u][p].delete = RouteAnswer(getScheduledPost(p, u))]
    /\ UNCHANGED << now, postVars, authVars, states, stateUses, limits, gate, got, runVars >>

\* ------------------------------------------------------------ RateLimiter
\* "Reset counter if window has passed": the entry as wouldExceedLimit,
\* recordRequest and getRemainingRequests leave it before they use it
windowReset(e) ==
    IF now > limits[e].resetAt
    THEN [count |-> 0, resetAt |-> now + windowMs[e]]
    ELSE limits[e]

\* the value wouldExceedLimit(endpoint, count) returns
wouldExceedLimit(e, n) == windowReset(e).count + n > maxPerWindow[e]

\* getTimeUntilReset(endpoint), read after wouldExceedLimit has run
getTimeUntilReset(e) ==
    IF windowReset(e).resetAt - now > 0 THEN windowReset(e).resetAt - now ELSE 0

\* one evaluation of the loop condition of waitForAvailability by caller c:
\* wouldExceedLimit runs; on false the promise resolves and the caller goes
\* on to its request, on true the caller sleeps waitTime + 100 ms (the timer
\* fires at the first second after the reset)
CheckAdmission(c, e, n) ==
    /\ limits' = [limits EXCEPT ![e] = windowReset(e)]
    /\ IF wouldExceedLimit(e, n)
       THEN gate' = [gate EXCEPT ![c].pc = "sleep", ![c].endpoint = e, ![c].count = n,
                                 ![c].wakeAt = now + getTimeUntilReset(e) + 1]
       ELSE gate' = [gate EXCEPT ![c].pc = "admitted", ![c].endpoint = e, ![c].count = n,
                                 ![c].wakeAt = 0]
    /\ UNCHANGED << now, postVars, authVars, states, stateUses, answers, got, runVars >>

\* waitForAvailability(endpoint, count) is called
WaitForAvailability(c, e, n) ==
    /\ gate[c].pc = "idle"
    /\ gate[c].calls < MaxRecorded
    /\ CheckAdmission(c, e, n)

\* the timer of a sleeping caller fires and the loop condition runs again
WakeUp(c) ==
    /\ gate[c].pc = "sleep"
    /\ now >= gate[c].wakeAt
    /\ CheckAdmission(c, gate[c].endpoint, gate[c].count)

\* recordRequest(endpoint, count) by the caller that was let through
RecordRequest(c) ==
    /\ gate[c].pc = "admitted"
    /\ limits' = [limits EXCEPT ![gate[c].endpoint] =
                     [windowReset(gate[c].endpoint) EXCEPT !.count = @ + gate[c].count]]
    /\ gate' = [gate EXCEPT ![c] = [IdleGate EXCEPT !.calls = gate[c].calls + 1]]
    /\ UNCHANGED << now, postVars, authVars, states, stateUses, answers, got, runVars >>

\* ------------------------------------------ SessionManager, OAuth state
\* createState: a fresh random state string with the verifier made for it
\* (verifier st stands for the one generated with state st)
CreateState(st) ==
    /\ st \notin DOMAIN states
    /\ stateUses[st].createdAt = NullTime
    /\ states' = states @@ (st :> [state |-> st, codeVerifier |-> st,
                                   expiresAt |-> now + stateExpiryMs])
    /\ stateUses' = [stateUses EXCEPT ![st].createdAt = now]
    /\ UNCHANGED << now, postVars, authVars, limits, gate, answers, got, runVars >>

\* this.states.delete(state), mutated: the entry is kept
statesDeleteSkipped(st) == states

\* this.states.delete(state)
statesDelete(st) == [x \in DOMAIN states \ {st} |-> states[x]]

\* getState(state): what it returns or throws
getState(st) ==
    IF st \notin DOMAIN states THEN << "Invalid state parameter" >>
    ELSE IF states[st].expiresAt < now THEN << "State parameter expired" >>
    ELSE << "ok", states[st].codeVerifier >>

\* exchangeCodeForTokens, mutated: the verifier comparison is left out
exchangeCodeForTokensUnverified(st, codeVerifier) ==
    LET stateData == getState(st)
    IN IF stateData[1] # "ok" THEN stateData
       ELSE << "ok", "token request" >>

\* exchangeCodeForTokens(code, state, codeVerifier) up to its first await:
\* getState, which deletes the entry it finds, and the verifier comparison
exchangeCodeForTokens(st, codeVerifier) ==
    LET stateData == getState(st)
    IN IF stateData[1] # "ok" THEN stateData
       ELSE IF stateData[2] # codeVerifier THEN << "ok", "Code verifier mismatch" >>
       ELSE << "ok", "token request" >>

\* POST /auth/callback presenting (state, codeVerifier): when neither getState
\* nor the comparison throws, generateKeyPair is called and the token request
\* is sent with the proof made with the new key
Callback(st, codeVerifier) ==
    LET outcome == exchangeCodeForTokens(st, codeVerifier)
        proceeds == IF outcome = << "ok", "token request" >> THEN 1 ELSE 0
    IN /\ SumLen([x \in StateIds |-> stateUses[x].answers], StateIds) < MaxCallbacks
       /\ states' = IF st \in DOMAIN states THEN statesDelete(st) ELSE states
       /\ stateUses' = [stateUses EXCEPT ![st].answers = Append(@, << outcome, now >>),
                                          ![st].keys = @ + proceeds,
                                          ![st].presented = codeVerifier]
       /\ tokenRequests' = tokenRequests + proceeds
       /\ UNCHANGED << now, postVars, sessions, issued, rf, limits, gate, answers, got, runVars >>

\* cleanupExpiredStates, on the interval timer
CleanupExpiredStates ==
    /\ states' = [x \in { y \in DOMAIN states : ~(states[y].expiresAt < now) } |-> states[x]]
    /\ UNCHANGED << now, postVars, authVars, stateUses, limits, gate, answers, got, runVars >>

\* ------------------------------------------------ TokenManager, sessions
\* time passes, up to the instant t
ElapseTo(t) ==
    /\ t > now
    /\ now' = t
    /\ UNCHANGED << postVars, authVars, extVars, runVars >>

\* the data of TokenManager.updateTokens: new tokens, a new expiresAt and
\* isActive: true; refreshExpiresAt is not part of the update
UpdateTokensData(row, n, expiresIn, t) ==
    [row EXCEPT !.accessToken = n, !.refreshToken = n, !.expiresAt = t + expiresIn,
                !.isActive = TRUE]

\* TokenManager.updateTokens(sessionId, tokens) with the n-th token pair of
\* the token endpoint
UpdateTokens(s, expiresIn) ==
    /\ s \in DOMAIN sessions
    /\ issued < MaxIssued
    /\ issued' = issued + 1
    /\ sessions' = [sessions EXCEPT ![s] = UpdateTokensData(@, issued + 1, expiresIn, now)]
    /\ UNCHANGED << now, postVars, rf, tokenRequests, extVars, runVars >>

\* TokenManager.revokeSession, the call of POST /auth/logout
RevokeSession(s) ==
    /\ s \in DOMAIN sessions
    /\ sessions' = [sessions EXCEPT ![s].isActive = FALSE]
    /\ UNCHANGED << now, postVars, issued, rf, tokenRequests, extVars, runVars >>

\* TokenManager.revokeAllSessions: updateMany where isActive
RevokeAllSessions ==
    /\ sessions' = [s \in DOMAIN sessions |-> [sessions[s] EXCEPT !.isActive = FALSE]]
    /\ UNCHANGED << now, postVars, issued, rf, tokenRequests, extVars, runVars >>

\* sessionHelpers.cleanupExpiredSessions: updateMany where isActive and
\* (expiresAt < now or refreshExpiresAt < now)
CleanupExpiredSessions ==
    /\ sessions' = [s \in DOMAIN sessions |->
                      IF /\ sessions[s].isActive
                         /\ (sessions[s].expiresAt < now \/ sessions[s].refreshExpiresAt < now)
                      THEN [sessions[s] EXCEPT !.isActive = FALSE, !.revokeReason = << "EXPIRED" >>]
                      ELSE sessions[s]]
    /\ UNCHANGED << now, postVars, issued, rf, tokenRequests, extVars, runVars >>

\* what a token read hands back: the tokens of the row it returns, with the
\* isActive and refreshExpiresAt of that row and the time of the read
Handed(fn, row) ==
    [fn |-> fn, result |-> << "tokens", row.accessToken, row.refreshToken >>,
     isActive |-> row.isActive, refreshExpiresAt |-> row.refreshExpiresAt, at |-> now]

Thrown(fn, msg) ==
    [fn |-> fn, result |-> << msg >>, isActive |-> FALSE, refreshExpiresAt |-> NullTime,
     at |-> now]

\* TokenManager.getTokens(sessionId): findUnique, then the isActive check
getTokens(s) ==
    IF s \notin DOMAIN sessions THEN Thrown("getTokens", "Session not found")
    ELSE IF ~sessions[s].isActive THEN Thrown("getTokens", "Session is inactive")
    ELSE Handed("getTokens", sessions[s])

\* TokenManager.getTokensForUser(userId): findFirst where isActive and
\* refreshExpiresAt > now
getTokensForUser ==
    IF ActiveSessions = {} THEN Thrown("getTokensForUser", "No active session found for user")
    ELSE Handed("getTokensForUser", sessions[CHOOSE x \in ActiveSessions : TRUE])

GetTokens(s) ==
    /\ got' = getTokens(s)
    /\ UNCHANGED << now, postVars, authVars, states, stateUses, limits, gate, answers, runVars >>

GetTokensForUser ==
    /\ got' = getTokensForUser
    /\ UNCHANGED << now, postVars, authVars, states, stateUses, limits, gate, answers, runVars >>

\* ------------------------------------------------------------- Spec
\* executePost, from the first await to the last
ExecSteps(C) ==
    \/ \E c \in C, p \in Posts : ExecRead(c, p)
    \/ \E c \in C, p \in Posts : ExecClaim(c, p)
    \/ \E c \in C, p \in Posts, o \in Outcomes : ExecPublish(c, p, o)
    \/ \E c \in C, p \in Posts : ExecSuccessWrite(c, p)
    \/ \E c \in C, p \in Posts : ExecFailureWrite(c, p)

\* processPendingPosts
TickSteps(D) ==
    \/ \E d \in D : TickStart(d)
    \/ \E d \in D : TickQuery(d)
    \/ \E d \in D : TickBatchDone(d)

Create == \E t \in 1..MaxNow : CreateScheduledPost("hello", t)

\* the dispatcher processes and direct executePost calls on one database
Next ==
    \/ Advance
    \/ Create
    \/ ExecSteps(Dispatchers)
    \/ TickSteps(Dispatchers)

Spec == Init /\ [][Next]_vars

\* the same processes on a database whose writes may fail.  The cron task
\* fires every minute and every awaited call settles, so the steps of a tick
\* and of executePost are weakly fair; a failing write is not.
NextFaults ==
    \/ Next
    \/ \E c \in Dispatchers, p \in Posts : ExecWriteFault(c, p)

FairSpec ==
    /\ Init
    /\ [][NextFaults]_vars
    /\ \A d \in Dispatchers :
          /\ WF_vars(TickStart(d))
          /\ WF_vars(TickQuery(d))
          /\ WF_vars(TickBatchDone(d))
          /\ \A p \in Posts :
                /\ WF_vars(ExecRead(d, p))
                /\ WF_vars(ExecClaim(d, p))
                /\ WF_vars(\E o \in Outcomes : ExecPublish(d, p, o))
                /\ WF_vars(ExecSuccessWrite(d, p))
                /\ WF_vars(ExecFailureWrite(d, p))

\* the HTTP surface (PUT and DELETE /posts/:id) next to one dispatcher process
UserSteps ==
    \/ \E p \in Posts, content \in {"", "edited"}, t \in {NullTime} \cup (1..MaxNow + 1) :
           UpdateRead(p, content, t)
    \/ \E p \in Posts : UpdateWrite(p)
    \/ \E p \in Posts : DeleteRead(p)
    \/ \E p \in Posts : DeleteWrite(p)

NextUser ==
    \/ Advance
    \/ Create
    \/ UserSteps
    \/ ExecSteps({1})
    \/ TickSteps({1})

SpecUser == Init /\ [][NextUser]_vars

\* any sequence of executePost calls and of updatePostStatus calls
NextCalls ==
    \/ Advance
    \/ Create
    \/ \E p \in Posts : ExecuteCall(p)
    \/ ExecSteps({Direct})
    \/ \E p \in Posts, st \in {"EXECUTING", "COMPLETED", "FAILED", "CANCELLED"},
          msg \in {NullText, << "failed" >>}, uri \in {NullText, RecordUri(1)} :
           UpdatePostStatus(p, st, msg, uri)

SpecCalls == Init /\ [][NextCalls]_vars

\* callers that need a token for the one stored session
NextRefresh ==
    \/ Advance
    \/ \E e \in {0, 1} : StoreTokens(e)
    \/ \E r \in Refreshers : MakeRequest(r)
    \/ \E r \in Refreshers, s \in {1} : RefreshCall(r, s)
    \/ \E r \in Refreshers : RefreshSend(r)
    \/ \E r \in Refreshers, ok \in BOOLEAN : RefreshAnswer(r, ok)

SpecRefresh == Init /\ [][NextRefresh]_vars

\* the session table on its own: logins, rotations, revocations, the expiry
\* cleanup and the token reads, over the lifetime of a refresh token

NextSession ==
    \/ \E t \in {3600, thirtyDays, thirtyDays + 3600} : ElapseTo(t)
    \/ \E e \in {3600, 7200} : StoreTokens(e)
    \/ \E s \in {1, 2}, e \in {3600, 7200} : UpdateTokens(s, e)
    \/ \E s \in {1, 2} : RevokeSession(s)
    \/ RevokeAllSessions
    \/ CleanupExpiredSessions
    \/ \E s \in {1, 2} : GetTokens(s)
    \/ GetTokensForUser

SpecSession == Init /\ [][NextSession]_vars

\* one dispatcher whose publishes go through makeRequest with the session of
\* the user: the access token of a login lives 1 or 3600 seconds

NextAuth ==
    \/ Advance
    \/ Create
    \/ \E e \in {1, 3600} : StoreTokens(e)
    \/ \E p \in Posts : ExecRead(1, p)
    \/ \E p \in Posts : ExecClaim(1, p)
    \/ \E p \in Posts : ExecAuthFail(1, p)
    \/ \E p \in Posts, o \in {"ok", "use_dpop_nonce"} : ExecSend(1, p, o)
    \/ \E p \in Posts : ExecSuccessWrite(1, p)
    \/ \E p \in Posts : ExecFailureWrite(1, p)
    \/ TickSteps({1})

SpecAuth == Init /\ [][NextAuth]_vars

\* the OAuth login flow of one backend process: authorize requests, callbacks
\* presenting any state string with the verifier made for it or with the
\* verifier of another state, and the cleanup timer, around the expiry of a
\* state

NextState ==
    \/ \E t \in {stateExpiryMs, stateExpiryMs + 1} : ElapseTo(t)
    \/ \E st \in StateIds : CreateState(st)
    \/ \E st \in StateIds : \E v \in {st, (st % NumStates) + 1} : Callback(st, v)
    \/ CleanupExpiredStates

SpecState == Init /\ [][NextState]_vars

\* callers that ask the RateLimiter for admission and then record their
\* request, each for one request, for a burst that fills the window but for
\* one, or for a burst of one more than a window holds, over two windows of
\* the shorter bucket and one of the longer, the instant at which the first
\* window of the shorter bucket ends included

NextRate ==
    \/ \E t \in {60, 61, 122, 301} : ElapseTo(t)
    \/ \E c \in GateCallers, e \in Endpoints :
          \E n \in {1, maxPerWindow[e] - 1, maxPerWindow[e] + 1} : WaitForAvailability(c, e, n)
    \/ \E c \in GateCallers : WakeUp(c)
    \/ \E c \in GateCallers : RecordRequest(c)

SpecRate == Init /\ [][NextRate]_vars

\* the posts router with two users: the author's requests (PUT and DELETE,
\* as above) and the requests any user makes on any post id
NextOwner ==
    \/ Advance
    \/ Create
    \/ UserSteps
    \/ \E p \in Posts, u \in Users : GetPost(p, u)
    \/ \E p \in Posts, u \in Users : UpdateDenied(p, u)
    \/ \E p \in Posts, u \in Users : DeleteDenied(p, u)

SpecOwner == Init /\ [][NextOwner]_vars

\* a database that already holds the given rows, all due, at the moment the
\* first tick after their scheduledAt fires
InitWith(rows) ==
    /\ posts = rows
    /\ now = 1
    /\ isRunning = [d \in Dispatchers |-> FALSE]
    /\ tick = [d \in Dispatchers |-> "idle"]
    /\ queue = [d \in Dispatchers |-> << >>]
    /\ inv = [c \in Callers |-> [p \in DOMAIN rows |-> IdleInv]]
    /\ upd = [p \in DOMAIN rows |-> IdleUpd]
    /\ del = [p \in DOMAIN rows |-> "idle"]
    /\ resp = [p \in DOMAIN rows |-> [put |-> "none", delete |-> "none"]]
    /\ log = [p \in DOMAIN rows |-> << >>]
    /\ records = 0
    /\ dbFaults = 0
    /\ auditLog = 0
    /\ sessions = << >>
    /\ issued = 0
    /\ rf = [r \in Refreshers |-> IdleRf]
    /\ tokenRequests = 0
    /\ states = << >>
    /\ stateUses = [st \in StateIds |-> NotIssued]
    /\ limits = [e \in Endpoints |-> [count |-> 0, resetAt |-> windowMs[e]]]
    /\ gate = [c \in GateCallers |-> IdleGate]
    /\ answers = [u \in Users |-> [p \in DOMAIN rows |-> NoAnswer]]
    /\ got = NothingGot
    /\ run = [d \in Dispatchers |-> IdleRun]
    /\ proofs = {}
    /\ vault = EmptyVault
    /\ dpop = NoKey
    /\ cron = NoJobs
    /\ api = NoRequests

\* one PostScheduler: its cron task and forced runs, and the steps of a tick
SchedulerSteps(d) ==
    \/ TickStart(d)
    \/ TickSkip(d)
    \/ TickQuery(d)
    \/ TickQueryThrows(d)
    \/ TickBatchDone(d)

\* one dispatcher process and more due posts than one sub-batch holds; every
\* createPost succeeds
BatchRows == [p \in 1..NumBatchPosts |-> NewPost("hello", 1)]

NextBatch ==
    \/ SchedulerSteps(1)
    \/ tick[1] = "pause" /\ ElapseTo(run[1].wakeAt)
    \/ TickResume(1)
    \/ \E p \in DOMAIN posts : ExecutePost(1, p, "ok")
    \/ \E p \in DOMAIN posts : ExecutePostThrows(1, p)

SpecBatch == InitWith(BatchRows) /\ [][NextBatch]_vars

\* rows as the columns of the schema allow them (threadRootId 0: no thread): a thread of two posts (root
\* and first reply), a post that may not execute yet, a logically deleted post;
\* any further row is a plain post.  createScheduledPost itself writes none of
\* these columns.
QueueRows ==
    [p \in 1..NumQueuePosts |->
        [NewPost("hello", 1) EXCEPT
            !.threadRootId = IF p \in {1, 2} THEN 1 ELSE 0,
            !.threadIndex = IF p = 2 THEN 1 ELSE 0,
            !.isThreadRoot = (p # 2),
            !.canExecute = (p # 3),
            !.isDeleted = (p = 4)]]

\* one dispatcher process on those rows; createPost may fail
NextQueue ==
    \/ SchedulerSteps(1)
    \/ \E p \in DOMAIN posts, o \in Outcomes : TotalAttempts < MaxAttempts /\ ExecutePost(1, p, o)
    \/ \E p \in DOMAIN posts : ExecutePostThrows(1, p)

SpecQueue == InitWith(QueueRows) /\ [][NextQueue]_vars

\* one dispatcher process that may be shut down and started again at any
\* moment.  The cron task fires every minute and every awaited call settles,
\* so the steps of a tick and of executePost are weakly fair; a shutdown is not.
NextShutdown ==
    \/ Advance
    \/ Create
    \/ ExecSteps({1})
    \/ TickSteps({1})
    \/ Shutdown(1)

FairShutdownSpec ==
    /\ Init
    /\ [][NextShutdown]_vars
    /\ WF_vars(TickStart(1))
    /\ WF_vars(TickQuery(1))
    /\ WF_vars(TickBatchDone(1))
    /\ \A p \in Posts :
          /\ WF_vars(ExecRead(1, p))
          /\ WF_vars(ExecClaim(1, p))
          /\ WF_vars(\E o \in Outcomes : ExecPublish(1, p, o))
          /\ WF_vars(ExecSuccessWrite(1, p))
          /\ WF_vars(ExecFailureWrite(1, p))

\* texts put into the TokenManager and read back
NextVault ==
    \/ \E text \in Texts, iv \in 1..NumIVs : VaultStore(text, iv)
    \/ VaultRead

SpecVault == Init /\ [][NextVault]_vars

\* one DPoPManager and the callers that share it: key generations that
\* overlap, clear and removeSession, and the operations that use the key
NextKey ==
    \/ \E c \in 1..NumKeyCallers, via \in {"generateKeyPair", "createSession"} :
          GenerateKeyPair(c, via)
    \/ \E c \in 1..NumKeyCallers : GenerateKeyPairResume(c)
    \/ \E bySession \in BOOLEAN : Clear(bySession)
    \/ \E op \in {"createProof", "getKeyId", "getPublicJWK"} : KeyOperation(op)

SpecKey == Init /\ [][NextKey]_vars

\* the cron jobs of one backend process over an hour and a half: the start
\* of the scheduler, jobs that are stopped, and the half-hourly health check
NextCron ==
    \/ \E t \in {60, 1800, 1860, 3600, 5400} : ElapseTo(t)
    \/ StartJobs
    \/ StopJobs
    \/ \E name \in Jobs : StopJob(name)
    \/ PerformHealthCheck

SpecCron == Init /\ [][NextCron]_vars

\* the create requests that one user of the api package has in flight
NextApi ==
    \/ \E c \in 1..NumApiCallers, isWithinTwoWeeks \in BOOLEAN :
          ValidateScheduledPostMiddleware(c, isWithinTwoWeeks)
    \/ \E c \in 1..NumApiCallers : CreatePost(c)
    \/ LeavePending

SpecApi == Init /\ [][NextApi]_vars

\* every place that creates a DPoP proof: the three calls of OAuthClient, the
\* calls BlueskyApiClient makes, makeRequest called with any method on any of
\* its endpoints, and the helper for API calls
NextProof ==
    \/ ProveExchange
    \/ ProveRefresh
    \/ ProveUserInfo
    \/ \E c \in ApiCalls : ProveRequest(c.path, c.query, c.method)
    \/ \E c \in ApiCalls, method \in Methods : ProveRequest(c.path, "", method)
    \/ \E c \in ApiCalls, method \in Methods : ProveAPICall(c.path, c.query, method)

SpecProof == Init /\ [][NextProof]_vars

TypeOK ==
    /\ now \in Nat
    /\ DOMAIN posts \subseteq Posts
    /\ \A p \in DOMAIN posts :
          posts[p].status \in {"PENDING", "PROCESSING", "EXECUTING", "COMPLETED", "FAILED", "CANCELLED"}

\* ------------------------------------------------------------ properties
\* number of successful createRecord calls made for post p
Created(p) == Cardinality({ i \in 1..Len(log[p]) : log[p][i] = "ok" })

\* the executePost invocations on p that are past the claim step
ClaimHolders(p) == { c \in Callers : inv[c][p].pc \in {"publish", "success", "failure"} }

Quiet(p) == \A c \in Callers : inv[c][p].pc = "idle"


\* C1: at-most-once publication: for every post the cumulative number of
\* successful createRecord calls is at most 1, whatever the interleaving of
\* dispatcher ticks and executePost calls.
AtMostOncePublication == \A p \in Posts : Created(p) <= 1

\* C2: the claim step is a compare-and-set: of the executePost invocations
\* running concurrently on one post at most one gets past the claim; the
\* others are skipped before createRecord and before any further write.
ClaimIsCompareAndSet == \A p \in Posts : Cardinality(ClaimHolders(p)) <= 1

\* C4: for every post, status = COMPLETED if and only if blueskyUri and
\* executedAt are both set.
CompletedIffPublished ==
    \A p \in DOMAIN posts :
        (posts[p].status = "COMPLETED")
            <=> (posts[p].blueskyUri # NullText /\ posts[p].executedAt # NullTime)

\* C5: COMPLETED, FAILED and CANCELLED are terminal, and the only status
\* transitions are PENDING->EXECUTING, EXECUTING->COMPLETED, EXECUTING->PENDING,
\* EXECUTING->FAILED and PENDING->CANCELLED (EXECUTING is the code's PROCESSING).
AllowedTransitions ==
    { << "PENDING", "PROCESSING" >>, << "PROCESSING", "COMPLETED" >>,
      << "PROCESSING", "PENDING" >>, << "PROCESSING", "FAILED" >>,
      << "PENDING", "CANCELLED" >> }

TerminalStatesAreFinal ==
    [][ \A p \in DOMAIN posts :
            posts'[p].status # posts[p].status
                => << posts[p].status, posts'[p].status >> \in AllowedTransitions ]_vars

\* C8: retry budget: when the first three publishes of a post fail with 503,
\* no fourth publish is made for it, and once no execution of it is in flight
\* the post has retryCount = 3, status = FAILED and an errorMsg that includes "503".
RetryBudget ==
    \A p \in DOMAIN posts :
        (Len(log[p]) >= 3 /\ \A i \in 1..3 : log[p][i] = "503")
            => /\ Len(log[p]) = 3
               /\ Quiet(p) => /\ posts[p].status = "FAILED"
                              /\ posts[p].retryCount = maxRetries
                              /\ Includes(posts[p].errorMsg, "503")

\* C9: progress: while ticks keep occurring and every started step of an
\* invocation is eventually taken, every post that is PENDING and due
\* eventually reaches COMPLETED or FAILED (or the run has used up the
\* attempts the model allows, AtCap); no post stays claimed for ever.
AtCap == TotalAttempts >= MaxAttempts

Progress ==
    \A p \in Posts :
        (p \in DOMAIN posts /\ posts[p].status = "PENDING" /\ posts[p].scheduledAt <= now)
            ~> ((p \in DOMAIN posts /\ posts[p].status \in {"COMPLETED", "FAILED"}) \/ AtCap)

\* C3: for every post, retryCount <= 3 after any sequence of executePost
\* calls and of updatePostStatus calls.
RetryCountBounded == \A p \in DOMAIN posts : posts[p].retryCount <= maxRetries

\* C6: a cancel succeeds only while the post is PENDING: no write turns a post
\* that is claimed, COMPLETED or FAILED into CANCELLED, and nothing is
\* published for a post once its DELETE was answered with success.
CancelOnlyWhilePending ==
    [][ \A p \in DOMAIN posts :
            /\ (posts'[p].status = "CANCELLED" /\ posts[p].status # "CANCELLED")
                   => posts[p].status = "PENDING"
            /\ resp[p].delete = "ok" => log'[p] = log[p] ]_vars

\* C7: an update of a post that is not PENDING changes neither content nor
\* scheduledAt nor status, and is answered INVALID_OPERATION.
UpdateOnlyWhilePending ==
    [][ \A p \in DOMAIN posts :
            (posts[p].status # "PENDING" /\ (upd'[p] # upd[p] \/ resp'[p].put # resp[p].put))
                => /\ posts'[p] = posts[p]
                   /\ resp'[p].put = "INVALID_OPERATION" ]_vars

\* C10: token refresh is single-flight per session: at no time are two
\* token requests for the session outstanding, and callers that refreshed
\* the same stored refresh token hold the same resulting tokens.
Refreshed(r) == rf[r].pc = "done" /\ Len(rf[r].result) > 0 /\ rf[r].result[1] = "tokens"

RefreshIsSingleFlight ==
    /\ Cardinality({ r \in Refreshers : rf[r].pc = "await" }) <= 1
    /\ \A r1, r2 \in Refreshers :
          (Refreshed(r1) /\ Refreshed(r2) /\ rf[r1].refreshToken = rf[r2].refreshToken)
              => rf[r1].result = rf[r2].result

\* C11: a revoked session is never reactivated: once a session has
\* isActive = false, no later operation on it (updateTokens included) sets
\* isActive back to true.
SessionNeverReactivated ==
    [][ \A s \in DOMAIN sessions : ~sessions[s].isActive => ~sessions'[s].isActive ]_vars

\* C18: getTokens and getTokensForUser never hand back token material of a
\* session that is inactive or whose refreshExpiresAt is <= the time of the
\* read; they throw instead.
NoTokensFromDeadSession ==
    (got.fn # "none" /\ got.result[1] = "tokens")
        => (got.isActive /\ got.refreshExpiresAt > got.at)

\* C19: for every session, in every reachable state, expiresAt <=
\* refreshExpiresAt, after storeTokens and after any number of updateTokens.
AccessExpiryWithinRefreshExpiry ==
    \A s \in DOMAIN sessions : sessions[s].expiresAt <= sessions[s].refreshExpiresAt

\* the stored access token of the user's session is expired, or expires in
\* less than 30 s, while the refresh token is valid
NeedsRefresh == \E s \in ActiveSessions : sessions[s].expiresAt - now < 30

\* C12: token expired at execution: a request made for a user whose stored
\* access token is expired or expires in less than 30 s, the refresh token
\* being valid, makes exactly one refresh call, then sends the publish,
\* and the stored access and refresh tokens are the new values.
RefreshBeforePublish ==
    [][ \A c \in Callers, p \in Posts :
            (inv[c][p].pc = "publish" /\ inv'[c][p].pc # "publish" /\ NeedsRefresh)
                => /\ tokenRequests' = tokenRequests + 1
                   /\ Len(log'[p]) = Len(log[p]) + 1
                   /\ \A s \in DOMAIN sessions :
                         /\ sessions'[s].accessToken # sessions[s].accessToken
                         /\ sessions'[s].refreshToken # sessions[s].refreshToken ]_vars

\* C13: refresh rejected: when the execution of a due post fails on the
\* refresh of the user's token, the session becomes inactive with
\* revokeReason "refresh_rejected" and the post is FAILED with an errorMsg
\* that contains "refresh".
RefreshRejectedFailsPost ==
    [][ \A c \in Callers, p \in Posts :
            (inv[c][p].pc = "failure" /\ Includes(inv[c][p].result, "refresh")
                                       /\ inv'[c][p].pc = "idle")
                => /\ posts'[p].status = "FAILED"
                   /\ Includes(posts'[p].errorMsg, "refresh")
                   /\ \A s \in DOMAIN sessions :
                         /\ ~sessions'[s].isActive
                         /\ sessions'[s].revokeReason = << "refresh_rejected" >> ]_vars

\* C14: nonce challenge: when the first response of a call carries
\* use_dpop_nonce, the call does not fail: it stays in the request step to
\* retry once with the nonce (only a second consecutive challenge fails it).
NonceChallengeIsRetried ==
    [][ \A c \in Callers, p \in Posts :
            (/\ inv[c][p].pc = "publish"
             /\ Len(log'[p]) = Len(log[p]) + 1
             /\ Last(log'[p]) = "use_dpop_nonce")
                => inv'[c][p].pc = "publish" ]_vars

\* the presentations of state st that getState accepted
Accepted(st) == { i \in 1..Len(stateUses[st].answers) : stateUses[st].answers[i][1][1] = "ok" }

\* C15: an OAuth state is single-use and time-limited: of all callbacks that
\* present a state issued by createState at most one gets it accepted, every
\* later presentation is answered 'Invalid state parameter', and no state is
\* accepted after its 10-minute lifetime (later than createdAt + 10 min).
StateSingleUse ==
    \A st \in StateIds :
        LET a == stateUses[st].answers
        IN /\ Cardinality(Accepted(st)) <= 1
           /\ \A i \in Accepted(st) :
                 /\ stateUses[st].createdAt # NullTime
                 /\ a[i][2] <= stateUses[st].createdAt + stateExpiryMs
                 /\ \A j \in (i + 1)..Len(a) : a[j][1] = << "Invalid state parameter" >>

\* a state was accepted once and presented again, and another one was
\* presented after its lifetime
StateReusedAndExpired ==
    /\ \E st \in StateIds : Accepted(st) # {} /\ Len(stateUses[st].answers) >= 2
    /\ \E st \in StateIds : \E i \in 1..Len(stateUses[st].answers) :
          stateUses[st].answers[i][1] = << "State parameter expired" >>

\* C16: the RateLimiter never exceeds the per-window cap: for each endpoint
\* class the number of requests recorded in the current window is at most
\* maxPerWindow, under any interleaving of callers that check admission and
\* then record.
WindowCapRespected == \A e \in Endpoints : limits[e].count <= maxPerWindow[e]

\* C17: wouldExceedLimit is non-mutating: a step in which a caller evaluates
\* wouldExceedLimit (the admission check) leaves count and resetAt of every
\* endpoint as they were.
WouldExceedIsNonMutating ==
    [][ (\E c \in GateCallers : gate'[c] # gate[c] /\ gate'[c].pc \in {"admitted", "sleep"})
            => limits' = limits ]_vars

\* C20: post ownership: every answer given to a user on a post of another
\* user (GET, PUT, DELETE /posts/:id) is FORBIDDEN, and the step that gives
\* it leaves the post row unchanged.
PostOwnership ==
    [][ \A u \in Users, p \in Posts :
            (p \in DOMAIN posts /\ posts[p].userId # u /\ answers'[u][p] # answers[u][p])
                => /\ posts' = posts
                   /\ answers'[u][p].get \in {answers[u][p].get, "FORBIDDEN"}
                   /\ answers'[u][p].put \in {answers[u][p].put, "FORBIDDEN"}
                   /\ answers'[u][p].delete \in {answers[u][p].delete, "FORBIDDEN"} ]_vars

\* C24: a PostScheduler has at most one processPendingPosts body in progress,
\* isRunning is set exactly while that body runs (it is cleared on every way
\* out of the body), and a call made while it is set changes nothing of the
\* posts, the queue or the executePost invocations.
ReentrancyGuard ==
    /\ [](\A d \in Dispatchers :
            /\ run[d].bodies = (IF isRunning[d] THEN 1 ELSE 0)
            /\ (tick[d] = "idle" => ~isRunning[d]))
    /\ [][\A d \in Dispatchers :
            (run[d].last # "skipped" /\ run'[d].last = "skipped")
               => UNCHANGED << posts, queue, inv, log, records, isRunning, tick >>]_vars

\* a call of processPendingPosts was turned away by the guard, and the body
\* that holds the guard has a sub-batch in flight
TickSkippedWhileRunning ==
    /\ run[1].last = "skipped"
    /\ run[1].bodies = 1
    /\ Active(1) # {}

\* the posts of a sub-batch whose executePost threw: handed out, settled,
\* and neither claimed nor sent
ThrownPosts(d) ==
    { p \in run[d].invoked : inv[d][p].pc = "idle" /\ posts[p].status = "PENDING"
                              /\ Len(log[p]) = 0 }

\* C25: when the batch of a tick ends, executePost has been invoked for every
\* post the query of that tick returned, whatever threw on the way.
PerPostIsolation ==
    [][\A d \in Dispatchers :
          (tick[d] = "batch" /\ tick'[d] = "idle")
             => run[d].invoked = Range(run[d].queried)]_vars

\* an executePost of the first sub-batch threw, and the second sub-batch is
\* in flight all the same
ThrowThenNextSubBatch ==
    /\ tick[1] = "batch"
    /\ Len(run[1].queried) > batchSize
    /\ run[1].invoked = Range(run[1].queried)
    /\ Cardinality(run[1].invoked \ Active(1)) = batchSize
    /\ ThrownPosts(1) # {}

ActiveNext(d) == { p \in DOMAIN inv'[d] : inv'[d][p].pc # "idle" }

\* C26: a dispatcher never has more than batchSize executePost invocations in
\* flight; invocations start only when none is in flight and, after the first
\* sub-batch, when the pause is over; what starts is the next batchSize posts
\* of the query, in query order.
Batching ==
    /\ [](\A d \in Dispatchers : Cardinality(Active(d)) <= batchSize)
    /\ [][\A d \in Dispatchers :
            ActiveNext(d) \ Active(d) # {}
               => LET q == run'[d].queried
                      k == Cardinality(run[d].invoked)
                      last == IF k + batchSize < Len(q) THEN k + batchSize ELSE Len(q)
                  IN /\ Active(d) = {}
                     /\ k > 0 => now >= run[d].wakeAt /\ run[d].wakeAt > 0
                     /\ k = batchSize * (k \div batchSize)
                     /\ ActiveNext(d) = { q[i] : i \in (k + 1)..last }]_vars

\* the second sub-batch of a tick is in flight, after the pause
SecondSubBatchInFlight ==
    /\ tick[1] = "batch"
    /\ Cardinality(run[1].invoked) > batchSize
    /\ Active(1) # {}
    /\ Active(1) \cap Range(SubBatch(run[1].queried)) = {}
    /\ now >= run[1].wakeAt

\* p comes before q in the thread they both belong to
PrecedesInThread(p, q) ==
    /\ p # q
    /\ posts[p].threadRootId # 0
    /\ posts[p].threadRootId = posts[q].threadRootId
    /\ posts[p].threadIndex < posts[q].threadIndex

RetryBackoff ==
    [][\A p \in DOMAIN posts :
          (Len(log'[p]) > Len(log[p]) /\ posts[p].retryCount >= 1) => now >= 1 + 30]_vars

\* C30: a createPost that is answered 400 (a permanent error) leaves the post
\* FAILED.
PermanentErrorIsFinal ==
    [][\A p \in DOMAIN posts :
          log'[p] = Append(log[p], "400") => posts'[p].status = "FAILED"]_vars

\* C28: no post stays claimed (PROCESSING) for ever: while ticks keep
\* occurring, a claimed post leaves PROCESSING again, by the outcome write of
\* its invocation or by a cleanup after the process that claimed it has gone
\* (or the run has used up the attempts the model allows, AtCap).
NoPostStuckExecuting ==
    \A p \in Posts :
        (p \in DOMAIN posts /\ posts[p].status = "PROCESSING")
            ~> ((p \in DOMAIN posts /\ posts[p].status # "PROCESSING") \/ AtCap)

\* C23: whatever text is given to storeTokens as the access token, the read
\* that follows hands back exactly that text: decrypt(encrypt(T)) = T, for
\* the empty text too.
EncryptionRoundTrip ==
    vault.pc = "read" => vault.result = << "text", vault.text >>

\* C22: in every DPoP proof created, htu carries neither a query nor a
\* fragment, and htm is upper case.
DPoPProofShape ==
    \A proof \in proofs :
        /\ proof.htu.query = ""
        /\ proof.htu.fragment = ""
        /\ proof.htm = toUpperCase(proof.htm)

\* C31: an admission check or a record on an endpoint at a time at or after the
\* reset time of its window, the very instant of the reset time included,
\* starts a new window: resetAt becomes now + windowMs.
FixedWindowBoundary ==
    [][\A e \in Endpoints :
          (/\ now >= limits[e].resetAt
           /\ \E c \in GateCallers :
                 \/ gate'[c] # gate[c] /\ gate'[c].pc \in {"admitted", "sleep"}
                       /\ gate'[c].endpoint = e
                 \/ gate[c].pc = "admitted" /\ gate'[c].pc = "idle" /\ gate[c].endpoint = e)
             => limits'[e].resetAt = now + windowMs[e]]_vars

\* C32: a caller that waitForAvailability has put to sleep can still be
\* admitted: what it asks for fits into a window.  (A caller asleep with more
\* than that finds the loop condition true at every wake-up, whatever time it
\* is, and its call never returns.)
WaitCanEnd ==
    \A c \in GateCallers :
        gate[c].pc = "sleep" => gate[c].count <= maxPerWindow[gate[c].endpoint]

\* C33: a rotation updates tokens and DPoP key together: the key stored in a
\* session row is the key pair generated with the token pair the row holds
\* (OAuthToken.dPopKeyPair of the refresh that returned those tokens).
RotationIsAtomic ==
    \A s \in DOMAIN sessions :
        /\ sessions[s].refreshToken = sessions[s].accessToken
        /\ sessions[s].dPopKey = sessions[s].accessToken

\* C34: a read of a session whose stored token does not decrypt leaves the
\* session inactive with revokeReason CRYPTO_FAILURE.
DecryptFailureIsFatal ==
    (vault.pc = "read" /\ vault.result[1] = "error")
        => (~vault.isActive /\ vault.revokeReason = << "CRYPTO_FAILURE" >>)

\* C35: a callback whose state is unknown or expired, or whose verifier is not
\* the one stored with the state, generates no DPoP key and sends no token
\* request, and the state it presented is in the state map no longer.
FailedExchangeConsumesState ==
    [][\A st \in StateIds :
          LET a == stateUses'[st].answers
              fails == \/ st \notin DOMAIN states
                       \/ states[st].expiresAt < now
                       \/ states[st].codeVerifier # stateUses'[st].presented
          IN (Len(a) = Len(stateUses[st].answers) + 1 /\ fails)
                => /\ stateUses'[st].keys = stateUses[st].keys
                   /\ tokenRequests' = tokenRequests
                   /\ st \notin DOMAIN states'
                   /\ a[Len(a)][1] # << "ok", "token request" >>]_vars

\* a state was presented with a wrong verifier while it was in the map, and
\* presented again with the right one, and no token request was sent
MismatchThenCorrectVerifier ==
    \E st \in StateIds :
        LET a == stateUses[st].answers
        IN /\ Len(a) = 2
           /\ a[1][1] = << "ok", "Code verifier mismatch" >>
           /\ stateUses[st].presented = st
           /\ tokenRequests = 0

\* C36: when the generateKeyPair calls on a manager have settled, the manager
\* holds one consistent key: publicJWK is the JWK of the public half of
\* privateKey and keyId is its thumbprint, and a proof created then carries
\* in its header the JWK of the key that signed it.
SettledKeyIsConsistent ==
    /\ ((\A c \in DOMAIN dpop.gen : dpop.gen[c].pc = "idle") /\ dpop.privateKey # 0)
          => /\ dpop.publicJWK = exportJWK(dpop.privateKey)
             /\ dpop.keyId = generateKeyId(dpop.publicJWK)
    /\ (dpop.seen.op = "createProof" /\ dpop.seen.settled /\ dpop.seen.result[1] = "ok")
          => dpop.seen.result[2] = exportJWK(dpop.seen.result[3])

\* C37: createProof, getKeyId and getPublicJWK succeed only while the manager
\* is initialized, and a clear() or removeSession leaves it uninitialized.
KeyLifecycle ==
    /\ [](dpop.seen.result # << >> /\ dpop.seen.result[1] = "ok" => dpop.seen.isInitialized)
    /\ [][(dpop.privateKey # 0 /\ dpop'.privateKey = 0) => ~isInitialized']_vars

\* C38: a health check that finds the 'process-pending-posts' job not
\* scheduled leaves it scheduled and changes no other job; a health check
\* that finds it scheduled changes no job.
HealthCheckRestartsTick ==
    [][cron'.checkedAt # cron.checkedAt
          => IF cron.jobs["process-pending-posts"] # "scheduled"
             THEN /\ cron'.jobs["process-pending-posts"] = "scheduled"
                  /\ \A name \in Jobs \ {"process-pending-posts"} :
                        cron'.jobs[name] = cron.jobs[name]
             ELSE cron'.jobs = cron.jobs]_vars

\* a health check has found the tick job stopped and has started it again
TickJobRestarted ==
    cron.restarted /\ cron.jobs["process-pending-posts"] = "scheduled"

\* C39: a user never has more than 5 PENDING scheduled posts, and a create
\* request never adds a post to 5 or more pending ones, however the create
\* requests of the user interleave.
PostLimit ==
    /\ [](api.pending <= 5)
    /\ [][api'.pending > api.pending => api.pending < 5]_vars

====
